---- MODULE Spec2Model ----
(***************************************************************************)
(* Model of passenger-ready (src/src/main.rs): an HTTP health endpoint     *)
(* that shells out to `passenger-status`, parses the queue depth from its  *)
(* standard output and answers 200 "true" / 503 "false".                   *)
(*                                                                         *)
(* Text is modelled as sequences of byte values / code points, i32 values  *)
(* as integers within the 32-bit range, and f32 values as records          *)
(* [neg, mant, exp] denoting (-1)^neg * mant * 2^exp with a 24-bit         *)
(* normalised mantissa (mant = 0 for zero), rounded to nearest-even as     *)
(* IEEE-754 binary32 arithmetic does.                                      *)
(***************************************************************************)
EXTENDS Integers, Sequences, FiniteSets, TLC

(* ------------------------------ bounds -------------------------------- *)

\* number of in-flight health requests modelled
NumReqs == 2

\* maximal length of the enumerated status outputs
MaxOutLen == 3

(* ------------------------- program constants -------------------------- *)

\* Duration::from_secs(5)
TimeoutSecs == 5

\* i32::MAX, the largest value parse::<i32> accepts
I32Max == 2147483647

\* i32::MIN
I32Min == (-2147483647) - 1

\* mantissa of the f32 literal 0.8 (0x3F4CCCCD): 0.8f32 = 13421773 * 2^-24
HeadroomMant == 13421773

\* width of the f32 significand
F32Bits == 24

\* StatusCode::OK
StatusOK == 200

\* StatusCode::SERVICE_UNAVAILABLE
StatusUnavailable == 503

\* warp's answer to a request no filter matched
StatusNotFound == 404

(* --------------------------- f32 arithmetic --------------------------- *)

Pow2(k) == 2 ^ k

RECURSIVE BitLen(_)
\* number of significant bits of a >= 0
BitLen(a) == IF a = 0 THEN 0 ELSE 1 + BitLen(a \div 2)

\* a / 2^k rounded to the nearest integer, ties to even
RoundShift(a, k) ==
  IF k = 0 THEN a
  ELSE LET q == a \div Pow2(k)
           r == a % Pow2(k)
           half == Pow2(k - 1)
       IN IF r > half \/ (r = half /\ q % 2 = 1) THEN q + 1 ELSE q

F32Zero == [neg |-> FALSE, mant |-> 0, exp |-> 0]

\* renormalise a rounded mantissa that carried out to 2^24
F32Norm(neg, m, e) ==
  IF m = Pow2(F32Bits) THEN [neg |-> neg, mant |-> Pow2(F32Bits - 1), exp |-> e + 1]
  ELSE [neg |-> neg, mant |-> m, exp |-> e]

\* `n as f32` for an i32 n
I32ToF32(n) ==
  IF n = 0 THEN F32Zero
  ELSE IF n = I32Min THEN [neg |-> TRUE, mant |-> Pow2(F32Bits - 1), exp |-> 8]
  ELSE LET a == IF n < 0 THEN -n ELSE n
           b == BitLen(a)
       IN IF b <= F32Bits
          THEN [neg |-> n < 0, mant |-> a * Pow2(F32Bits - b), exp |-> b - F32Bits]
          ELSE F32Norm(n < 0, RoundShift(a, b - F32Bits), b - F32Bits)

\* x * y in f32 (finite, normal operands), the exact 48-bit product of the
\* mantissas kept in two 24-bit halves hi, lo and rounded once
F32Mul(x, y) ==
  IF x.mant = 0 \/ y.mant = 0 THEN F32Zero
  ELSE LET xh == x.mant \div 4096
           xl == x.mant % 4096
           yh == y.mant \div 4096
           yl == y.mant % 4096
           ll == xl * yl
           mid == xh * yl + xl * yh
           hh == xh * yh
           loSum == ll + (mid % 4096) * 4096
           lo == loSum % Pow2(F32Bits)
           hi == hh + (mid \div 4096) + (loSum \div Pow2(F32Bits))
           neg == x.neg # y.neg
       IN IF hi >= Pow2(F32Bits - 1)
          THEN LET up == lo > Pow2(F32Bits - 1)
                         \/ (lo = Pow2(F32Bits - 1) /\ hi % 2 = 1)
               IN F32Norm(neg, IF up THEN hi + 1 ELSE hi, x.exp + y.exp + F32Bits)
          ELSE LET m0 == hi * 2 + (lo \div Pow2(F32Bits - 1))
                   r == lo % Pow2(F32Bits - 1)
                   up == r > Pow2(F32Bits - 2)
                         \/ (r = Pow2(F32Bits - 2) /\ m0 % 2 = 1)
               IN F32Norm(neg, IF up THEN m0 + 1 ELSE m0, x.exp + y.exp + F32Bits - 1)

\* magnitude order of two nonzero normalised values
F32MagLt(x, y) == x.exp < y.exp \/ (x.exp = y.exp /\ x.mant < y.mant)

\* x < y in f32
F32Lt(x, y) ==
  IF x.mant = 0 THEN y.mant # 0 /\ ~y.neg
  ELSE IF y.mant = 0 THEN x.neg
  ELSE IF x.neg # y.neg THEN x.neg
  ELSE IF x.neg THEN F32MagLt(y, x)
  ELSE F32MagLt(x, y)

\* the f32 literal 0.8
Headroom == [neg |-> FALSE, mant |-> HeadroomMant, exp |-> -F32Bits]

\* (queue_length as f32) < (max_queue_length as f32 * 0.8)
BelowThreshold(queue_length, max_queue_length) ==
  F32Lt(I32ToF32(queue_length), F32Mul(I32ToF32(max_queue_length), Headroom))

(* --------------------------- text handling ---------------------------- *)

\* byte values / code points the model names
Colon == 58

Plus == 43

Minus == 45

Digit0 == 48

Digit9 == 57

\* U+FFFD REPLACEMENT CHARACTER
ReplacementChar == 65533

\* String::from_utf8_lossy on bytes that are ASCII or can never occur in
\* well-formed UTF-8 (0xC0, 0xC1, 0xF5..0xFF): each of the latter becomes
\* one U+FFFD
FromUtf8Lossy(bytes) ==
  [i \in 1..Len(bytes) |-> IF bytes[i] < 128 THEN bytes[i] ELSE ReplacementChar]

\* char::is_whitespace (the Unicode White_Space property)
IsWhitespace(c) ==
  \/ c \in 9..13
  \/ c \in {32, 133, 160, 5760, 8232, 8233, 8239, 8287, 12288}
  \/ c \in 8192..8202

Ok(v) == [ok |-> TRUE, val |-> v, err |-> "none"]

Err(e) == [ok |-> FALSE, val |-> 0, err |-> e]

None == [some |-> FALSE, val |-> << >>]

Some(v) == [some |-> TRUE, val |-> v]

\* positions of ':' in s
ColonsOf(s) == {i \in 1..Len(s) : s[i] = Colon}

Min(S) == CHOOSE m \in S : \A n \in S : m <= n

\* output_str.split(":").nth(1): the text between the first ':' and the next
\* one (or the end), None when there is no ':'
SplitNth1(s) ==
  IF ColonsOf(s) = {} THEN None
  ELSE LET first == Min(ColonsOf(s))
           later == {i \in ColonsOf(s) : i > first}
           last == IF later = {} THEN Len(s) ELSE Min(later) - 1
       IN Some(SubSeq(s, first + 1, last))

\* Trim as str::trim_start: trailing whitespace is kept
TrimStartOnly(s) ==
  LET keep == {i \in 1..Len(s) : ~IsWhitespace(s[i])}
  IN IF keep = {} THEN << >> ELSE SubSeq(s, Min(keep), Len(s))

\* str::trim
Trim(s) ==
  LET keep == {i \in 1..Len(s) : ~IsWhitespace(s[i])}
  IN IF keep = {} THEN << >>
     ELSE SubSeq(s, Min(keep), CHOOSE m \in keep : \A n \in keep : n <= m)

IsDigit(c) == c \in Digit0..Digit9

RECURSIVE ParseDigits(_, _, _)
\* the digit loop of i32::from_str: result = result.checked_mul(10)?, then
\* checked_add(digit)? for a positive and checked_sub(digit)? for a negative
\* number
ParseDigits(s, neg, result) ==
  IF s = << >> THEN Ok(result)
  ELSE IF ~IsDigit(Head(s)) THEN Err("InvalidDigit")
  ELSE LET d == Head(s) - Digit0
       IN IF neg
          THEN IF result < -(I32Max \div 10) \/ result * 10 < I32Min + d
               THEN Err("NegOverflow")
               ELSE ParseDigits(Tail(s), neg, result * 10 - d)
          ELSE IF result > I32Max \div 10 \/ result * 10 > I32Max - d
               THEN Err("PosOverflow")
               ELSE ParseDigits(Tail(s), neg, result * 10 + d)

\* str::parse::<i32>
ParseI32(s) ==
  IF s = << >> THEN Err("Empty")
  ELSE IF Len(s) = 1 /\ Head(s) \in {Plus, Minus} THEN Err("InvalidDigit")
  ELSE IF Head(s) = Plus THEN ParseDigits(Tail(s), FALSE, 0)
  ELSE IF Head(s) = Minus THEN ParseDigits(Tail(s), TRUE, 0)
  ELSE ParseDigits(s, FALSE, 0)

\* ParseOutput without the test of output.status.success()
ParseOutputIgnoringStatus(success, stdout) ==
  LET queue_part == SplitNth1(FromUtf8Lossy(stdout))
  IN IF queue_part.some
     THEN ParseI32(Trim(queue_part.val))
     ELSE Err("Failed to parse queue length")

\* get_queue_length once the command has produced its Output: the exit
\* status is examined first, standard output is parsed only on success
ParseOutput(success, stdout) ==
  IF success
  THEN LET queue_part == SplitNth1(FromUtf8Lossy(stdout))
       IN IF queue_part.some
          THEN ParseI32(Trim(queue_part.val))
          ELSE Err("Failed to parse queue length")
  ELSE Err("passenger-status execution failed")

(* ------------------------- admission decision ------------------------- *)

\* can_take_more_traffic, given what get_queue_length returned: `?` passes
\* an error on, a depth is compared with the threshold
CanTakeMoreTraffic(queue_length, max_queue) ==
  IF queue_length.ok
  THEN IF BelowThreshold(queue_length.val, max_queue) THEN "Ok(true)" ELSE "Ok(false)"
  ELSE "Err"

NoReply == [status |-> 0, body |-> ""]

\* Reply with the error arm admitting traffic
ReplyErrAdmits(can_take) ==
  IF can_take = "Ok(false)" THEN [status |-> StatusUnavailable, body |-> "false"]
  ELSE [status |-> StatusOK, body |-> "true"]

\* Reply with the reject arm keeping the status of the admit arm
ReplyMixed(can_take) ==
  IF can_take = "Ok(true)" THEN [status |-> StatusOK, body |-> "true"]
  ELSE [status |-> StatusOK, body |-> "false"]

\* the match in the /health handler
Reply(can_take) ==
  IF can_take = "Ok(true)" THEN [status |-> StatusOK, body |-> "true"]
  ELSE IF can_take = "Ok(false)" THEN [status |-> StatusUnavailable, body |-> "false"]
  ELSE [status |-> StatusUnavailable, body |-> "false"]

\* warp::path("health"): the first path segment is "health"; neither the
\* method nor the rest of the path is constrained
RouteMatches(m, p) == Len(p) >= 1 /\ p[1] = "health"

(* ------------------------------- inputs ------------------------------- *)

Reqs == 1..NumReqs

\* request lines received: GET /health, POST /health, GET /health/x and
\* GET /other, each a method and the segments of a path
RequestLines ==
  {<<"GET", <<"health">>>>, <<"POST", <<"health">>>>,
   <<"GET", <<"health", "x">>>>, <<"GET", <<"other">>>>}

\* "Requests in top-level queue : 0\n"
OutEmptyQueue == 
  <<82, 101, 113, 117, 101, 115, 116, 115, 32, 105, 110, 32, 116,
    111, 112, 45, 108, 101, 118, 101, 108, 32, 113, 117, 101, 117,
    101, 32, 58, 32, 48, 10>>

\* "Requests in top-level queue : 90\n"
OutLongQueue == 
  <<82, 101, 113, 117, 101, 115, 116, 115, 32, 105, 110, 32, 116,
    111, 112, 45, 108, 101, 118, 101, 108, 32, 113, 117, 101, 117,
    101, 32, 58, 32, 57, 48, 10>>

\* "no colon here"
OutNoColon == 
  <<110, 111, 32, 99, 111, 108, 111, 110, 32, 104, 101, 114, 101>>

\* "Requests in queue : abc"
OutNotInteger == 
  <<82, 101, 113, 117, 101, 115, 116, 115, 32, 105, 110, 32, 113,
    117, 101, 117, 101, 32, 58, 32, 97, 98, 99>>

\* "Requests in top-level queue : -1\n"
OutNegative == 
  <<82, 101, 113, 117, 101, 115, 116, 115, 32, 105, 110, 32, 116,
    111, 112, 45, 108, 101, 118, 101, 108, 32, 113, 117, 101, 117,
    101, 32, 58, 32, 45, 49, 10>>

\* "Requests in top-level queue : 8388611\n"
OutHuge == 
  <<82, 101, 113, 117, 101, 115, 116, 115, 32, 105, 110, 32, 116,
    111, 112, 45, 108, 101, 118, 101, 108, 32, 113, 117, 101, 117,
    101, 32, 58, 32, 56, 51, 56, 56, 54, 49, 49, 10>>

\* "Requests in top-level queue : 79\n"
OutJustBelow == 
  <<82, 101, 113, 117, 101, 115, 116, 115, 32, 105, 110, 32, 116,
    111, 112, 45, 108, 101, 118, 101, 108, 32, 113, 117, 101, 117,
    101, 32, 58, 32, 55, 57, 10>>

\* "Requests in top-level queue : 80\n"
OutAtThreshold == 
  <<82, 101, 113, 117, 101, 115, 116, 115, 32, 105, 110, 32, 116,
    111, 112, 45, 108, 101, 118, 101, 108, 32, 113, 117, 101, 117,
    101, 32, 58, 32, 56, 48, 10>>

\* "Requests in top-level queue : 2147483648\n"
OutAboveI32 ==
  <<82, 101, 113, 117, 101, 115, 116, 115, 32, 105, 110, 32, 116,
    111, 112, 45, 108, 101, 118, 101, 108, 32, 113, 117, 101, 117,
    101, 32, 58, 32, 50, 49, 52, 55, 52, 56, 51, 54, 52, 56, 10>>

\* "Requests in top-level queue : -2147483648\n"
OutMinI32 ==
  <<82, 101, 113, 117, 101, 115, 116, 115, 32, 105, 110, 32, 116,
    111, 112, 45, 108, 101, 118, 101, 108, 32, 113, 117, 101, 117,
    101, 32, 58, 32, 45, 50, 49, 52, 55, 52, 56, 51, 54, 52, 56, 10>>

\* status outputs of the concurrent specification
SampleOutputs == {OutEmptyQueue, OutLongQueue, OutNoColon}

\* max_queue_length values of the concurrent specification: the default and
\* the value of the overload test
ConfigValues == {100, 5}

\* bytes the enumerated outputs are made of: ':', ' ', '1', '9', '-', '+',
\* 'a' and the invalid byte 0xFF
Alphabet == {58, 32, 49, 57, 45, 43, 97, 255}

RECURSIVE SeqsUpTo(_)
\* all outputs of at most n bytes over Alphabet
SeqsUpTo(n) ==
  IF n = 0 THEN {<< >>}
  ELSE LET shorter == SeqsUpTo(n - 1)
       IN shorter \cup {Append(s, c) : s \in {t \in shorter : Len(t) = n - 1}, c \in Alphabet}

\* status outputs of the single-request specification
AllOutputs ==
  SeqsUpTo(MaxOutLen) \cup SampleOutputs
    \cup {OutNotInteger, OutNegative, OutHuge, OutJustBelow, OutAtThreshold,
          OutAboveI32, OutMinI32}

\* max_queue_length values of the single-request specification
WideConfigValues == {0, 1, 5, 100, 10485764}

(* ------------------------------- state -------------------------------- *)

VARIABLES
  max_queue_length,  \* settings.max_queue_length, loaded at startup
  pc,                \* per request: "idle", "awaiting" (suspended in timeout(..).await), "done"
  method,            \* per request: the request method
  path,              \* per request: the request path, as its segments
  elapsed,           \* per request: seconds since its timeout started
  child,             \* per request: "none", "running", "exited", "abandoned"
  obs,               \* per request: what timeout(.., output()).await yielded
  queue_length,      \* per request: the Result of get_queue_length
  can_take,          \* per request: the Result of can_take_more_traffic
  resp,              \* per request: the reply sent
  calls,             \* per request: invocations of get_queue_length
  spawns             \* per request: invocations of Command::output

vars == <<max_queue_length, pc, method, path, elapsed, child, obs,
          queue_length, can_take, resp, calls, spawns>>

NoObs == [kind |-> "none", success |-> FALSE, stdout |-> << >>]

\* the value of `timeout(..).await??` in get_queue_length and what the rest
\* of the function makes of it
GetQueueLength(o) ==
  IF o.kind = "output" THEN ParseOutput(o.success, o.stdout)
  ELSE IF o.kind = "elapsed" THEN Err("deadline has elapsed")
  ELSE Err("spawn failed")

\* Inspect with a cache: the output another request has observed is reused
InspectCached(r, o) ==
  IF \E q \in Reqs \ {r} : pc[q] = "done" /\ obs[q].kind = "output"
  THEN obs[CHOOSE q \in Reqs \ {r} : pc[q] = "done" /\ obs[q].kind = "output"]
  ELSE o

\* Inspect behind a shared lock: while another request holds it, the
\* observation is lost
InspectShared(r, o) ==
  IF \E q \in Reqs \ {r} : pc[q] = "awaiting"
  THEN [kind |-> "elapsed", success |-> FALSE, stdout |-> << >>]
  ELSE o

\* the observation a request's evaluation uses: the one its own call made
Inspect(r, o) == o

\* DeadlineReached without a timeout around output(): no timer ever fires
DeadlineNever(r) == FALSE

\* the timer of tokio::time::timeout has expired
DeadlineReached(r) == elapsed[r] = TimeoutSecs

InitWith(configs) ==
  /\ max_queue_length \in configs
  /\ pc = [r \in Reqs |-> "idle"]
  /\ method = [r \in Reqs |-> "none"]
  /\ path = [r \in Reqs |-> << >>]
  /\ elapsed = [r \in Reqs |-> 0]
  /\ child = [r \in Reqs |-> "none"]
  /\ obs = [r \in Reqs |-> NoObs]
  /\ queue_length = [r \in Reqs |-> Err("none")]
  /\ can_take = [r \in Reqs |-> "none"]
  /\ resp = [r \in Reqs |-> NoReply]
  /\ calls = [r \in Reqs |-> 0]
  /\ spawns = [r \in Reqs |-> 0]

Init == InitWith(ConfigValues)

\* the handler runs to its end with observation o: get_queue_length
\* returns, can_take_more_traffic evaluates, the reply is sent and the
\* timer is dropped
Finish(r, o) ==
  LET ql == GetQueueLength(Inspect(r, o))
      ct == CanTakeMoreTraffic(ql, max_queue_length)
  IN /\ obs' = [obs EXCEPT ![r] = o]
     /\ queue_length' = [queue_length EXCEPT ![r] = ql]
     /\ can_take' = [can_take EXCEPT ![r] = ct]
     /\ resp' = [resp EXCEPT ![r] = Reply(ct)]
     /\ elapsed' = [elapsed EXCEPT ![r] = 0]
     /\ pc' = [pc EXCEPT ![r] = "done"]

\* a request no route matches: warp answers 404, the handler does not run
NotFound(r, m, p) ==
  /\ pc[r] = "idle"
  /\ ~RouteMatches(m, p)
  /\ method' = [method EXCEPT ![r] = m]
  /\ path' = [path EXCEPT ![r] = p]
  /\ resp' = [resp EXCEPT ![r] = [status |-> StatusNotFound, body |-> ""]]
  /\ pc' = [pc EXCEPT ![r] = "done"]
  /\ UNCHANGED <<max_queue_length, elapsed, child, obs, queue_length, can_take,
                 calls, spawns>>

\* a request the route matches: the handler calls can_take_more_traffic,
\* which calls get_queue_length, which spawns the command and suspends in
\* timeout(5 s, output())
HealthRequest(r, m, p) ==
  /\ pc[r] = "idle"
  /\ RouteMatches(m, p)
  /\ method' = [method EXCEPT ![r] = m]
  /\ path' = [path EXCEPT ![r] = p]
  /\ calls' = [calls EXCEPT ![r] = @ + 1]
  /\ spawns' = [spawns EXCEPT ![r] = @ + 1]
  /\ child' = [child EXCEPT ![r] = "running"]
  /\ elapsed' = [elapsed EXCEPT ![r] = 0]
  /\ pc' = [pc EXCEPT ![r] = "awaiting"]
  /\ UNCHANGED <<max_queue_length, obs, queue_length, can_take, resp>>

\* as HealthRequest, but output() fails to spawn `sh`: the io::Error leaves
\* get_queue_length through the second `?` at once
SpawnFails(r, m, p) ==
  /\ pc[r] = "idle"
  /\ RouteMatches(m, p)
  /\ method' = [method EXCEPT ![r] = m]
  /\ path' = [path EXCEPT ![r] = p]
  /\ calls' = [calls EXCEPT ![r] = @ + 1]
  /\ spawns' = [spawns EXCEPT ![r] = @ + 1]
  /\ Finish(r, [kind |-> "io_error", success |-> FALSE, stdout |-> << >>])
  /\ UNCHANGED <<max_queue_length, child>>

\* one second passes for every running timeout; time does not pass a
\* deadline whose timer has not fired yet
Tick ==
  /\ \E r \in Reqs : pc[r] = "awaiting"
  /\ \A r \in Reqs : pc[r] = "awaiting" => elapsed[r] < TimeoutSecs
  /\ elapsed' = [r \in Reqs |-> IF pc[r] = "awaiting" THEN elapsed[r] + 1 ELSE elapsed[r]]
  /\ UNCHANGED <<max_queue_length, pc, method, path, child, obs, queue_length,
                 can_take, resp, calls, spawns>>

\* the command exits before the timer fires (timeout polls the command
\* first, so an exit at the deadline still wins) and the handler resumes
CommandCompletes(r, success, stdout) ==
  /\ pc[r] = "awaiting"
  /\ child' = [child EXCEPT ![r] = "exited"]
  /\ Finish(r, [kind |-> "output", success |-> success, stdout |-> stdout])
  /\ UNCHANGED <<max_queue_length, method, path, calls, spawns>>

\* the timer fires while the command is still running: timeout yields
\* Elapsed, the first `?` returns it; the child is dropped, not killed
TimeoutElapses(r) ==
  /\ pc[r] = "awaiting"
  /\ DeadlineReached(r)
  /\ child' = [child EXCEPT ![r] = "abandoned"]
  /\ Finish(r, [kind |-> "elapsed", success |-> FALSE, stdout |-> << >>])
  /\ UNCHANGED <<max_queue_length, method, path, calls, spawns>>

Next ==
  \/ \E r \in Reqs, l \in RequestLines : NotFound(r, l[1], l[2])
  \/ \E r \in Reqs, l \in RequestLines : HealthRequest(r, l[1], l[2])
  \/ \E r \in Reqs, l \in RequestLines : SpawnFails(r, l[1], l[2])
  \/ Tick
  \/ \E r \in Reqs, success \in BOOLEAN, stdout \in SampleOutputs :
        CommandCompletes(r, success, stdout)
  \/ \E r \in Reqs : TimeoutElapses(r)

Spec == Init /\ [][Next]_vars

\* the runtime keeps time moving and polls a task whose timer has fired;
\* nothing obliges the command to exit
FairSpec == Spec /\ WF_vars(Tick) /\ \A r \in Reqs : WF_vars(TimeoutElapses(r))

(* -------- single request, enumerated outputs and configurations ------- *)

InitOne == InitWith(WideConfigValues)

NextOne ==
  \/ \E l \in RequestLines : NotFound(1, l[1], l[2])
  \/ \E l \in RequestLines : HealthRequest(1, l[1], l[2])
  \/ \E l \in RequestLines : SpawnFails(1, l[1], l[2])
  \/ Tick
  \/ \E success \in BOOLEAN, stdout \in AllOutputs : CommandCompletes(1, success, stdout)
  \/ TimeoutElapses(1)

SpecOne == InitOne /\ [][NextOne]_vars

(* ------------------------------- claims ------------------------------- *)

Rejected == [status |-> StatusUnavailable, body |-> "false"]

Admitted == [status |-> StatusOK, body |-> "true"]

\* the request was answered by the health handler
Handled(r) == pc[r] = "done" /\ calls[r] > 0

\* C1: whenever the inspector succeeds with depth d and the configured
\* maximum M is positive, the verdict is true exactly when 5*d < 4*M.
\* 5*d < 4*M is d < ceil(4*M/5), computed here without leaving 32 bits.
C1_VerdictIsExactThreshold ==
  \A r \in Reqs :
    (Handled(r) /\ queue_length[r].ok /\ max_queue_length > 0)
      => LET M == max_queue_length
             ceil == 4 * (M \div 5) + ((4 * (M % 5) + 4) \div 5)
         IN (can_take[r] = "Ok(true)") <=> (queue_length[r].val < ceil)

\* C2: with max_queue_length = 0 no health request is ever answered 200,
\* whatever depth the inspector returns.
C2_ZeroMaximumNeverAdmits ==
  max_queue_length = 0
    => \A r \in Reqs : resp[r].status # StatusOK /\ can_take[r] # "Ok(true)"

\* C3: fail-closed. A health request whose observation failed (timer
\* elapsed, spawn error, non-zero exit, or output that does not parse) is
\* answered 503 "false", and a 200 is only ever sent after the command
\* exited successfully and its output parsed.
C3_FailClosed ==
  \A r \in Reqs :
    Handled(r) =>
      LET failed == \/ obs[r].kind \in {"elapsed", "io_error"}
                    \/ (obs[r].kind = "output" /\ ~obs[r].success)
                    \/ (obs[r].kind = "output" /\ ~queue_length[r].ok)
      IN /\ failed => resp[r] = Rejected
         /\ resp[r].status = StatusOK
              => obs[r].kind = "output" /\ obs[r].success /\ queue_length[r].ok

\* C3 witness: a request whose observation timed out has been answered
\* 503 "false".
C3_Witness ==
  \E r \in Reqs : Handled(r) /\ obs[r].kind = "elapsed" /\ ~queue_length[r].ok
                   /\ resp[r] = Rejected

\* C4: every reply of the health handler is (200, "true") or (503, "false"),
\* and it is (200, "true") exactly when the verdict is true.
C4_ReplyPairs ==
  \A r \in Reqs :
    Handled(r) =>
      /\ resp[r] \in {Admitted, Rejected}
      /\ (resp[r] = Admitted) <=> (can_take[r] = "Ok(true)")

\* C4 witness: a request was rejected on a successful observation of a
\* queue at the threshold (depth 80 of 100).
C4_Witness ==
  \E r \in Reqs : /\ Handled(r) /\ max_queue_length = 100
                   /\ queue_length[r] = Ok(80)
                   /\ can_take[r] = "Ok(false)" /\ resp[r] = Rejected

\* C5: after a successful exit, get_queue_length returns depth n exactly when
\* the second ':'-separated field of the output, trimmed, is a decimal numeral
\* (an optional sign and one or more digits) whose value n is an i32; with no
\* ':' or any other second field it returns an error and the reply is
\* 503 "false".
C5_SecondFieldDecides ==
  \A r \in Reqs :
    (Handled(r) /\ obs[r].kind = "output" /\ obs[r].success) =>
      LET s == FromUtf8Lossy(obs[r].stdout)
          \* the second field is s[i+1..j]
          IsField(i, j) ==
            /\ s[i] = Colon
            /\ \A k \in 1..(i - 1) : s[k] # Colon
            /\ \A k \in (i + 1)..j : s[k] # Colon
            /\ j = Len(s) \/ s[j + 1] = Colon
          \* t is the field s[i+1..j] without its surrounding whitespace
          IsTrimmed(t, i, j) ==
            \/ t = << >> /\ \A k \in (i + 1)..j : IsWhitespace(s[k])
            \/ \E a \in (i + 1)..j : \E b \in a..j :
                 /\ t = SubSeq(s, a, b)
                 /\ ~IsWhitespace(s[a]) /\ ~IsWhitespace(s[b])
                 /\ \A k \in (i + 1)..(a - 1) : IsWhitespace(s[k])
                 /\ \A k \in (b + 1)..j : IsWhitespace(s[k])
          Signed(t) == t # << >> /\ t[1] \in {Plus, Minus}
          Digits(t) == IF Signed(t) THEN Tail(t) ELSE t
          Zeros(u) == IF \E k \in 1..Len(u) : u[k] # Digit0
                      THEN Min({k \in 1..Len(u) : u[k] # Digit0}) - 1
                      ELSE Len(u)
          Sig(t) == SubSeq(Digits(t), Zeros(Digits(t)) + 1, Len(Digits(t)))
          \* "2147483647" and "2147483648"
          Limit(t) == IF t[1] = Minus
                      THEN <<50, 49, 52, 55, 52, 56, 51, 54, 52, 56>>
                      ELSE <<50, 49, 52, 55, 52, 56, 51, 54, 52, 55>>
          LexLeq(u, v) ==
            u = v \/ \E k \in 1..Len(u) :
                        u[k] < v[k] /\ \A h \in 1..(k - 1) : u[h] = v[h]
          IsI32Numeral(t) ==
            /\ Digits(t) # << >>
            /\ \A k \in 1..Len(Digits(t)) : Digits(t)[k] \in Digit0..Digit9
            /\ Len(Sig(t)) <= 10
            /\ Len(Sig(t)) = 10 => LexLeq(Sig(t), Limit(t))
          Value(t) ==
            LET u == Sig(t)
                sgn == IF t[1] = Minus THEN -1 ELSE 1
                sum[k \in 0..Len(u)] ==
                  IF k = 0 THEN 0
                  ELSE sum[k - 1] + sgn * (u[k] - Digit0) * 10 ^ (Len(u) - k)
            IN sum[Len(u)]
          Numerals ==
            {t \in {SubSeq(s, a, b) : a \in 1..(Len(s) + 1), b \in 0..Len(s)} :
               \E i \in 1..Len(s) : \E j \in i..Len(s) :
                  IsField(i, j) /\ IsTrimmed(t, i, j) /\ IsI32Numeral(t)}
      IN /\ \A t \in Numerals : queue_length[r] = Ok(Value(t))
         /\ Numerals = {} => (~queue_length[r].ok /\ resp[r] = Rejected)

\* C5 witness: the output "Requests in top-level queue : 0\n" was observed
\* and depth 0 returned.
C5_Witness ==
  \E r \in Reqs :
    /\ Handled(r) /\ obs[r].kind = "output" /\ obs[r].success
    /\ obs[r].stdout = OutEmptyQueue
    /\ queue_length[r] = Ok(0)

\* C6: a health request suspended on the command is always answered, even
\* when the command never exits; its wait never exceeds the 5 seconds, and
\* a timeout happens at the deadline and is answered 503 "false".
C6_AnsweredWithinTimeout ==
  /\ \A r \in Reqs : (pc[r] = "awaiting") ~> (pc[r] = "done" /\ resp[r] # NoReply)
  /\ [](\A r \in Reqs : pc[r] = "awaiting" => elapsed[r] <= TimeoutSecs)
  /\ [][\A r \in Reqs :
          (obs'[r].kind = "elapsed" /\ obs[r].kind # "elapsed")
            => (elapsed[r] = TimeoutSecs /\ child[r] = "running"
                /\ pc'[r] = "done" /\ resp'[r] = Rejected)]_vars

\* C6 witness: a request was answered 503 "false" on a timeout while its
\* command was still running.
C6_Witness ==
  \E r \in Reqs :
    pc[r] = "done" /\ obs[r].kind = "elapsed" /\ child[r] = "abandoned"
    /\ resp[r] = Rejected

\* C7: the admission evaluation runs, and a verdict is sent, only for
\* requests with method GET and path exactly /health.
C7_OnlyGetHealth ==
  \A r \in Reqs :
    (calls[r] > 0 \/ spawns[r] > 0 \/ resp[r] \in {Admitted, Rejected})
      => (method[r] = "GET" /\ path[r] = <<"health">>)

\* C8: the reply of every request is a function of its own observation and
\* of the max_queue_length loaded at startup, which no step changes, and a
\* suspended request can complete whatever state the other requests are in.
C8_Independent ==
  /\ [](\A r \in Reqs :
          Handled(r) =>
            resp[r] = Reply(CanTakeMoreTraffic(GetQueueLength(obs[r]),
                                               max_queue_length)))
  /\ [](\A r \in Reqs :
          pc[r] = "awaiting" =>
            ENABLED (\E ok \in BOOLEAN : CommandCompletes(r, ok, OutEmptyQueue)))
  /\ [][max_queue_length' = max_queue_length]_vars

\* C8 witness: one request has been admitted while another is still
\* suspended on a command that has not exited by the deadline.
C8_Witness ==
  \E r \in Reqs : \E q \in Reqs \ {r} :
    /\ pc[r] = "awaiting" /\ elapsed[r] = TimeoutSecs
    /\ Handled(q) /\ resp[q] = Admitted

\* C9: a health check calls get_queue_length once and spawns once, never
\* more; its result is the one of the observation made in this request.
C9_OneObservationPerRequest ==
  \A r \in Reqs :
    /\ calls[r] <= 1 /\ spawns[r] <= 1
    /\ pc[r] = "awaiting" => (calls[r] = 1 /\ spawns[r] = 1)
    /\ Handled(r) =>
         /\ calls[r] = 1 /\ spawns[r] = 1
         /\ queue_length[r] = GetQueueLength(obs[r])
         /\ can_take[r] = CanTakeMoreTraffic(queue_length[r], max_queue_length)

\* C9 witness: two requests were answered with different verdicts, the
\* later observation not being replaced by the earlier one; one of them
\* failed and was not retried.
C9_Witness ==
  \E r \in Reqs : \E q \in Reqs \ {r} :
    /\ Handled(r) /\ Handled(q)
    /\ can_take[r] = "Ok(true)" /\ can_take[q] = "Err"
    /\ spawns[r] = 1 /\ spawns[q] = 1

\* C10: a command that exits with a non-zero status yields the
\* command-failure error whatever its output, and the reply is 503 "false".
C10_NonZeroExitRejects ==
  \A r \in Reqs :
    (Handled(r) /\ obs[r].kind = "output" /\ ~obs[r].success) =>
      /\ queue_length[r] = Err("passenger-status execution failed")
      /\ can_take[r] = "Err"
      /\ resp[r] = Rejected

\* C10 witness: the command failed although it printed
\* "Requests in top-level queue : 0\n", a depth below the threshold.
C10_Witness ==
  \E r \in Reqs :
    /\ Handled(r) /\ obs[r].kind = "output" /\ ~obs[r].success
    /\ obs[r].stdout = OutEmptyQueue
    /\ BelowThreshold(0, max_queue_length)
    /\ resp[r] = Rejected

====
